---------------------------- MODULE Spec2Model ----------------------------
(***************************************************************************)
(* Model of the resaas control plane:                                      *)
(*   - the controller entrypoint (app/controller/resaas/controller/run.py):*)
(*     the supervised controller process, check_status and the health     *)
(*     RPC callback;                                                        *)
(*   - the scheduler configuration resolver                                *)
(*     (scheduler/resaas/scheduler/config.py);                             *)
(*   - the remote density evaluation client                                *)
(*     (lib/common/resaas/common/pdfs/__init__.py).                        *)
(* Each of the three parts has its own specification; the variables of    *)
(* the other parts stay at their initial values.                          *)
(***************************************************************************)
EXTENDS Integers, Sequences, FiniteSets, TLC

VARIABLES
    \* ---- controller entrypoint (run.py) ----
    parentPc,     \* position of run(): "create", "start", "serve", "serving"
    procStarted,  \* controller_proc.start() has been called
    startCount,   \* how many times controller_proc was started
    childPc,      \* position of wrapped_run_job in the child process
    raised,       \* what run_job raised, "none" if nothing
    logged,       \* logger.exception(e) has been called in the child
    osExit,       \* exit status of the child: <<>> while none, <<code>> after
    pending,      \* ids of health requests received and not yet answered
    nextId,       \* id of the next health request
    replies,      \* answers given so far, oldest first
    \* ---- scheduler configuration (config.py) ----
    raw,          \* the raw configuration document
    cfgPc,        \* "raw", "loaded"
    loadResult,   \* outcome of SchedulerConfigSchema().load(raw)
    instances,    \* node drivers built by create_node_driver, oldest first
    \* ---- remote density evaluation (pdfs/__init__.py) ----
    state,        \* the array handed to log_prob / log_prob_gradient
    pdfPc,        \* "idle", "waiting", "done"
    request,      \* the request sent over the stub
    response,     \* what the stub call gave back
    pdfResult     \* what the call gave its caller

healthVars == <<parentPc, procStarted, startCount, childPc, raised, logged,
                osExit, pending, nextId, replies>>
configVars == <<raw, cfgPc, loadResult, instances>>
pdfVars    == <<state, pdfPc, request, response, pdfResult>>
vars       == <<healthVars, configVars, pdfVars>>

(***************************************************************************)
(* Bounds of the model.                                                    *)
(***************************************************************************)
MaxQueries   == 3   \* health requests per behaviour
MaxInstances == 2   \* create_node_driver calls per behaviour
MaxLen       == 2   \* longest array
MaxTrunc     == 3   \* most bytes a response buffer is cut short by

\* Python's None and a present value, as sequences of length 0 and 1.
None    == <<>>
Some(v) == <<v>>

(***************************************************************************)
(*                 CONTROLLER ENTRYPOINT  (run.py)                         *)
(***************************************************************************)

\* What controller.run_job() may raise.  RuntimeError stands for every
\* subclass of Exception; the others derive from BaseException only.
ExcKinds == {"RuntimeError", "KeyboardInterrupt", "SystemExit(0)", "SystemExit(137)"}

\* `except Exception as e` (run.py:244): the classes that clause catches.
CaughtByExceptException(kind) == kind = "RuntimeError"

\* Signals that may kill the child from outside.
Signals == {9, 15}

\* Exit code multiprocessing gives a child whose target let `kind` escape:
\* SystemExit(n) exits with n, anything else with 1.
BootstrapExitCode(kind) ==
    CASE kind = "SystemExit(0)"   -> 0
      [] kind = "SystemExit(137)" -> 137
      [] OTHER                    -> 1

\* controller_proc.exitcode: None before start() and while the child runs.
ProcExitcode == IF procStarted THEN osExit ELSE None

\* Variant of check_status that tests `exitcode > 0` in place of `!= 0`.
check_status_gt(exitcode) ==
    IF exitcode = None THEN <<TRUE, "SERVING">>
    ELSE IF exitcode[1] > 0 THEN <<FALSE, "FAILED">>
    ELSE <<TRUE, "SUCCESS">>

\* check_status(proc), on proc.exitcode.
check_status(exitcode) ==
    IF exitcode = None THEN <<TRUE, "SERVING">>
    ELSE IF exitcode[1] # 0 THEN <<FALSE, "FAILED">>
    ELSE <<TRUE, "SUCCESS">>

\* controller_state(): the callback of the Health servicer.
controller_state == check_status(ProcExitcode)[2]

HealthInit ==
    /\ parentPc = "create"
    /\ procStarted = FALSE
    /\ startCount = 0
    /\ childPc = "unborn"
    /\ raised = "none"
    /\ logged = FALSE
    /\ osExit = None
    /\ pending = {}
    /\ nextId = 1
    /\ replies = <<>>

\* controller_proc = Process(target=wrapped_run_job, daemon=True)
ProcessCreate ==
    /\ parentPc = "create"
    /\ parentPc' = "start"
    /\ UNCHANGED <<procStarted, startCount, childPc, raised, logged, osExit,
                   pending, nextId, replies>>
    /\ UNCHANGED <<configVars, pdfVars>>

\* Variant of ProcessStart that also starts the process again after it ended.
ProcessStartRestarting ==
    /\ \/ parentPc = "start"
       \/ osExit # None
    /\ parentPc' = IF parentPc = "start" THEN "serve" ELSE parentPc
    /\ procStarted' = TRUE
    /\ startCount' = startCount + 1
    /\ childPc' = "run_job"
    /\ osExit' = None
    /\ startCount < 2
    /\ UNCHANGED <<raised, logged, pending, nextId, replies>>
    /\ UNCHANGED <<configVars, pdfVars>>

\* controller_proc.start()
ProcessStart ==
    /\ parentPc = "start"
    /\ parentPc' = "serve"
    /\ procStarted' = TRUE
    /\ startCount' = startCount + 1
    /\ childPc' = "run_job"
    /\ UNCHANGED <<raised, logged, osExit, pending, nextId, replies>>
    /\ UNCHANGED <<configVars, pdfVars>>

\* grpc.server(ex) ... server.start(); server.wait_for_termination()
ServerStart ==
    /\ parentPc = "serve"
    /\ parentPc' = "serving"
    /\ UNCHANGED <<procStarted, startCount, childPc, raised, logged, osExit,
                   pending, nextId, replies>>
    /\ UNCHANGED <<configVars, pdfVars>>

\* A client sends a health request; the server queues it for a worker.
HealthRequest ==
    /\ parentPc = "serving"
    /\ nextId <= MaxQueries
    /\ pending' = pending \cup {nextId}
    /\ nextId' = nextId + 1
    /\ UNCHANGED <<parentPc, procStarted, startCount, childPc, raised, logged,
                   osExit, replies>>
    /\ UNCHANGED <<configVars, pdfVars>>

\* Variant of HealthAnswer that waits for the child to end before answering.
HealthAnswerJoining(id) ==
    /\ id \in pending
    /\ ProcExitcode # None
    /\ pending' = pending \ {id}
    /\ replies' = Append(replies, [id |-> id, child |-> childPc,
                                   exitcode |-> ProcExitcode,
                                   label |-> controller_state])
    /\ UNCHANGED <<parentPc, procStarted, startCount, childPc, raised, logged,
                   osExit, nextId>>
    /\ UNCHANGED <<configVars, pdfVars>>

\* A worker of the thread pool answers request `id` with controller_state().
HealthAnswer(id) ==
    /\ id \in pending
    /\ pending' = pending \ {id}
    /\ replies' = Append(replies, [id |-> id, child |-> childPc,
                                   exitcode |-> ProcExitcode,
                                   label |-> controller_state])
    /\ UNCHANGED <<parentPc, procStarted, startCount, childPc, raised, logged,
                   osExit, nextId>>
    /\ UNCHANGED <<configVars, pdfVars>>

\* ---- the child process: wrapped_run_job ----

\* controller.run_job() returns; the target returns and the child exits 0.
RunJobReturns ==
    /\ childPc = "run_job"
    /\ childPc' = "exited"
    /\ osExit' = Some(0)
    /\ UNCHANGED <<parentPc, procStarted, startCount, raised, logged, pending,
                   nextId, replies>>
    /\ UNCHANGED <<configVars, pdfVars>>

\* controller.run_job() raises: the except clause takes what it catches,
\* anything else leaves wrapped_run_job at once and ends the child.
RunJobRaises(kind) ==
    /\ childPc = "run_job"
    /\ raised' = kind
    /\ IF CaughtByExceptException(kind)
          THEN /\ childPc' = "except"
               /\ UNCHANGED osExit
          ELSE /\ childPc' = "exited"
               /\ osExit' = Some(BootstrapExitCode(kind))
    /\ UNCHANGED <<parentPc, procStarted, startCount, logged, pending, nextId,
                   replies>>
    /\ UNCHANGED <<configVars, pdfVars>>

\* logger.exception(e)
LogException ==
    /\ childPc = "except"
    /\ logged' = TRUE
    /\ childPc' = "reraise"
    /\ UNCHANGED <<parentPc, procStarted, startCount, raised, osExit, pending,
                   nextId, replies>>
    /\ UNCHANGED <<configVars, pdfVars>>

\* Variant of Reraise without `raise e`: the target returns, the child exits 0.
ReraiseSwallowed ==
    /\ childPc = "reraise"
    /\ childPc' = "exited"
    /\ osExit' = Some(0)
    /\ UNCHANGED <<parentPc, procStarted, startCount, raised, logged, pending,
                   nextId, replies>>
    /\ UNCHANGED <<configVars, pdfVars>>

\* raise e: the exception leaves the target and the child exits.
Reraise ==
    /\ childPc = "reraise"
    /\ childPc' = "exited"
    /\ osExit' = Some(BootstrapExitCode(raised))
    /\ UNCHANGED <<parentPc, procStarted, startCount, raised, logged, pending,
                   nextId, replies>>
    /\ UNCHANGED <<configVars, pdfVars>>

\* The child is killed by signal `sig` from outside; multiprocessing reports
\* the exit code -sig.
Killed(sig) ==
    /\ childPc \in {"run_job", "except", "reraise"}
    /\ childPc' = "exited"
    /\ osExit' = Some(0 - sig)
    /\ UNCHANGED <<parentPc, procStarted, startCount, raised, logged, pending,
                   nextId, replies>>
    /\ UNCHANGED <<configVars, pdfVars>>

Next ==
    \/ ProcessCreate
    \/ ProcessStart
    \/ ServerStart
    \/ HealthRequest
    \/ \E id \in 1..MaxQueries : HealthAnswer(id)
    \/ RunJobReturns
    \/ \E kind \in ExcKinds : RunJobRaises(kind)
    \/ LogException
    \/ Reraise
    \/ \E sig \in Signals : Killed(sig)


(***************************************************************************)
(*               SCHEDULER CONFIGURATION  (config.py)                      *)
(***************************************************************************)

\* Members of the NodeType enumeration (resaas.scheduler.nodes.base).
\* UNREGISTERED_VM stands for any member DRIVER_SCHEMAS has no entry for.
NodeType == {"LIBCLOUD_VM", "UNREGISTERED_VM"}

\* Fields a driver section may hold; every value is a string.
DriverFields == {"creds", "user_id", "key", "project", "datacenter"}

\* Variant of GCEDriverConfigSchema without the datacenter field.
GCERequiredLax == {"user_id", "key", "project"}

\* GCEDriverConfigSchema: its fields, all required.
GCEDriverConfigSchema == {"user_id", "key", "project", "datacenter"}

\* DummyDriverConfigSchema: its field, required.
DummyDriverConfigSchema == {"creds"}

\* The fields of a driver schema, by the schema's name.
SchemaFields(schema) ==
    CASE schema = "GCEDriverConfigSchema"   -> GCEDriverConfigSchema
      [] schema = "DummyDriverConfigSchema" -> DummyDriverConfigSchema

\* Variant of DRIVER_SCHEMAS with the two schemas exchanged.
DRIVER_SCHEMAS_Crossed ==
    [nt \in {"LIBCLOUD_VM"} |->
        [d \in {"gce", "dummy"} |->
            IF d = "gce" THEN <<"GCENodeDriver", "DummyDriverConfigSchema">>
                         ELSE <<"DeployableDummyNodeDriver", "GCEDriverConfigSchema">>]]

\* DRIVER_SCHEMAS: node type -> driver id -> (factory, schema).
DRIVER_SCHEMAS ==
    [nt \in {"LIBCLOUD_VM"} |->
        [d \in {"gce", "dummy"} |->
            IF d = "gce" THEN <<"GCENodeDriver", "GCEDriverConfigSchema">>
                         ELSE <<"DeployableDummyNodeDriver", "DummyDriverConfigSchema">>]]

\* An exception: its class and its messages, as (field, text) pairs.
Raise(type, messages) == [tag |-> "raise", type |-> type, messages |-> messages]

\* A ValidationError raised with one text inside a post_load hook.
ValidationError(text) == Raise("ValidationError", {<<"_schema", text>>})

UnknownNodeTypeText == "Scheduler config specified an unknown node_type"
UnknownDriverText   == "Scheduler config specified an unknown driver type"
MissingSpecText     == "Scheduler config specified node_driver but did not specify corresponding specs for it in driver_specs."

\* Schema.load of a driver schema on a section (a set of field names):
\* every declared field is required, undeclared fields are refused.
DriverSchemaLoad(schema, section) ==
    LET missing == SchemaFields(schema) \ section
        unknown == section \ SchemaFields(schema)
    IN  IF missing = {} /\ unknown = {}
        THEN [tag |-> "ok", value |-> section]
        ELSE Raise("ValidationError",
                   {<<f, "Missing data for required field.">> : f \in missing}
                   \cup {<<f, "Unknown field.">> : f \in unknown})

\* SchedulerConfig.__init__
SchedulerConfig(node_type, driver, driver_args, driver_kwargs) ==
    [tag |-> "config", node_type |-> node_type, driver |-> driver,
     driver_args |-> driver_args, driver_kwargs |-> driver_kwargs]

\* Variant of make_scheduler_config without the unknown driver test: the
\* registry lookup raises KeyError.
make_scheduler_config_unchecked_driver(data) ==
    LET node_type == data.node_type
        requested_driver == data.node_driver
    IN  IF node_type \notin DOMAIN DRIVER_SCHEMAS
        THEN ValidationError(UnknownNodeTypeText)
        ELSE IF requested_driver \notin DOMAIN DRIVER_SCHEMAS[node_type]
        THEN Raise("KeyError", {<<requested_driver, "KeyError">>})
        ELSE LET driver == DRIVER_SCHEMAS[node_type][requested_driver][1]
                 driver_config_schema == DRIVER_SCHEMAS[node_type][requested_driver][2]
             IN  IF "driver_specs" \notin data.top
                 THEN Raise("KeyError", {<<"driver_specs", "KeyError">>})
                 ELSE IF requested_driver \notin DOMAIN data.driver_specs
                 THEN ValidationError(MissingSpecText)
                 ELSE LET driver_config == DriverSchemaLoad(driver_config_schema,
                                                data.driver_specs[requested_driver])
                      IN  IF driver_config.tag = "raise"
                          THEN driver_config
                          ELSE SchedulerConfig(node_type, driver, <<>>, driver_config.value)

\* SchedulerConfigSchema.make_scheduler_config(data): the post_load hook.
\* data["driver_specs"] on a document without that block is a KeyError.
make_scheduler_config(data) ==
    LET node_type == data.node_type
        requested_driver == data.node_driver
    IN  IF node_type \notin DOMAIN DRIVER_SCHEMAS
        THEN ValidationError(UnknownNodeTypeText)
        ELSE IF requested_driver \notin DOMAIN DRIVER_SCHEMAS[node_type]
        THEN ValidationError(UnknownDriverText)
        ELSE LET driver == DRIVER_SCHEMAS[node_type][requested_driver][1]
                 driver_config_schema == DRIVER_SCHEMAS[node_type][requested_driver][2]
             IN  IF "driver_specs" \notin data.top
                 THEN Raise("KeyError", {<<"driver_specs", "KeyError">>})
                 ELSE IF requested_driver \notin DOMAIN data.driver_specs
                 THEN ValidationError(MissingSpecText)
                 ELSE LET driver_config == DriverSchemaLoad(driver_config_schema,
                                                data.driver_specs[requested_driver])
                      IN  IF driver_config.tag = "raise"
                          THEN driver_config
                          ELSE SchedulerConfig(node_type, driver, <<>>, driver_config.value)

\* The required top-level fields of SchedulerConfigSchema.
TopRequired == {"ssh_public_key", "node_entrypoint", "node_image", "node_size",
                "node_type", "node_driver"}

\* Whether the document passes the base shape: every required field is
\* there and node_type is the value of a NodeType member.
BaseShapeValid(document) ==
    /\ TopRequired \subseteq document.top
    /\ document.node_type \in NodeType

\* SchedulerConfigSchema().load(document): the fields are validated, and
\* only a valid document reaches the post_load hook.
SchedulerConfigSchemaLoad(document) ==
    IF ~BaseShapeValid(document)
    THEN Raise("ValidationError",
               {<<f, "Missing data for required field.">> : f \in TopRequired \ document.top}
               \cup (IF document.node_type \in NodeType THEN {}
                     ELSE {<<"node_type", "Invalid enum value">>}))
    ELSE make_scheduler_config(document)

\* The raw documents of the model.
TopKeySets == {(TopRequired \ dropped) \cup block :
                  dropped \in SUBSET {"ssh_public_key"},
                  block \in SUBSET {"driver_specs"}}
DriverSpecMaps == UNION {[K -> SUBSET DriverFields] : K \in SUBSET {"gce", "dummy"}}
RawDocuments ==
    {d \in [top : TopKeySets,
            node_type : NodeType \cup {"NotANodeType"},
            node_driver : {"gce", "dummy", "aws"},
            driver_specs : DriverSpecMaps] :
        "driver_specs" \notin d.top => d.driver_specs = <<>>}

ConfigInit ==
    /\ raw \in RawDocuments
    /\ cfgPc = "raw"
    /\ loadResult = [tag |-> "none"]
    /\ instances = <<>>

\* SchedulerConfigSchema().load(raw)
LoadConfig ==
    /\ cfgPc = "raw"
    /\ cfgPc' = "loaded"
    /\ loadResult' = SchedulerConfigSchemaLoad(raw)
    /\ UNCHANGED <<raw, instances>>
    /\ UNCHANGED <<healthVars, pdfVars>>

\* SchedulerConfig.create_node_driver(): calls the bound factory.
CreateNodeDriver ==
    /\ cfgPc = "loaded"
    /\ loadResult.tag = "config"
    /\ Len(instances) < MaxInstances
    /\ instances' = Append(instances, [factory |-> loadResult.driver,
                                       args |-> loadResult.driver_args,
                                       kwargs |-> loadResult.driver_kwargs])
    /\ UNCHANGED <<raw, cfgPc, loadResult>>
    /\ UNCHANGED <<healthVars, pdfVars>>

ConfigNext ==
    \/ LoadConfig
    \/ CreateNodeDriver


(***************************************************************************)
(*          REMOTE DENSITY EVALUATION  (pdfs/__init__.py)                  *)
(***************************************************************************)

\* An array is its dtype and its elements, each element the bytes it takes
\* in memory (little-endian): [dtype |-> ..., elems |-> <<bytes, ...>>].
Dtypes == {"float64", "float32", "int64"}

\* Bytes of one element of the dtype.
ItemSize(dtype) == IF dtype = "float32" THEN 4 ELSE 8

\* Elements of the model, by dtype: 0.0, 1.0, -2.5; 0.0, 1.0; 0, 1.
Elements(dtype) ==
    CASE dtype = "float64" -> {<<0,0,0,0,0,0,0,0>>, <<0,0,0,0,0,0,240,63>>,
                               <<0,0,0,0,0,0,4,192>>}
      [] dtype = "float32" -> {<<0,0,0,0>>, <<0,0,128,63>>}
      [] dtype = "int64"   -> {<<0,0,0,0,0,0,0,0>>, <<1,0,0,0,0,0,0,0>>}

SeqsUpTo(S, n) == UNION {[1..k -> S] : k \in 0..n}

Arrays == UNION {[dtype : {dt}, elems : SeqsUpTo(Elements(dt), MaxLen)] : dt \in Dtypes}
Float64Arrays == {a \in Arrays : a.dtype = "float64"}

RECURSIVE Concat(_)
Concat(seqs) == IF seqs = <<>> THEN <<>> ELSE Head(seqs) \o Concat(Tail(seqs))

\* _encode_array(x): x.tobytes(), the elements' bytes one after the other.
_encode_array(x) == Concat(x.elems)

\* The dtype np.frombuffer reads when none is given.
\* Variant of FrombufferDtype reading float32.
FrombufferDtypeFloat32 == "float32"
FrombufferDtype == "float64"

ValueError == [tag |-> "raise", type |-> "ValueError",
               messages |-> {<<"frombuffer", "buffer size must be a multiple of element size">>}]

\* _decode_array(x): np.frombuffer(x), float64 elements read off the buffer;
\* a buffer that is not a whole number of elements is a ValueError.
_decode_array(buf) ==
    LET w == ItemSize(FrombufferDtype)
        n == Len(buf) \div w
    IN  IF Len(buf) % w # 0
        THEN ValueError
        ELSE [tag |-> "ok",
              value |-> [dtype |-> FrombufferDtype,
                         elems |-> [i \in 1..n |-> SubSeq(buf, (i - 1) * w + 1, i * w)]]]

\* The buffer without its last k bytes.
Truncate(buf, k) == SubSeq(buf, 1, IF k > Len(buf) THEN 0 ELSE Len(buf) - k)

\* grpc.RpcError raised by a stub call: the transport failed (UNAVAILABLE) or
\* the remote side raised (UNKNOWN).
RpcError(code) == [tag |-> "raise", type |-> "RpcError", messages |-> {<<"code", code>>}]
RpcErrorCodes == {"UNAVAILABLE", "UNKNOWN"}

\* What the stub can give back for a request: an error, or a response whose
\* buffer is the request's own buffer or an encoded float64 array, possibly
\* cut short.
GradientBuffers(req) ==
    {Truncate(b, k) : b \in {req.state_bytes} \cup {_encode_array(g) : g \in Float64Arrays},
                      k \in 0..MaxTrunc}
LogProbResults == {"-1.5", "nan"}
StubOutcomes(req) ==
    {RpcError(c) : c \in RpcErrorCodes}
    \cup (IF req.op = "LogProb"
          THEN {[tag |-> "ok", log_prob_result |-> r] : r \in LogProbResults}
          ELSE {[tag |-> "ok", gradient_bytes |-> b] : b \in GradientBuffers(req)})

PdfInit ==
    /\ state \in Arrays
    /\ pdfPc = "idle"
    /\ request = [op |-> "none"]
    /\ response = [tag |-> "none"]
    /\ pdfResult = [tag |-> "none"]

\* SafeUserPDF.log_prob(state), up to the stub call.
LogProbCall ==
    /\ pdfPc = "idle"
    /\ request' = [op |-> "LogProb", state_bytes |-> _encode_array(state), job_id |-> "job"]
    /\ pdfPc' = "waiting"
    /\ UNCHANGED <<state, response, pdfResult>>
    /\ UNCHANGED <<healthVars, configVars>>

\* The result of log_prob once the stub call has ended with `out`.
log_prob_result(out) ==
    IF out.tag = "raise" THEN out
    ELSE [tag |-> "return", value |-> out.log_prob_result]

\* SafeUserPDF.log_prob(state), from the end of the stub call.
LogProbReturn ==
    /\ pdfPc = "waiting"
    /\ request.op = "LogProb"
    /\ \E out \in StubOutcomes(request) :
          /\ response' = out
          /\ pdfResult' = log_prob_result(out)
    /\ pdfPc' = "done"
    /\ UNCHANGED <<state, request>>
    /\ UNCHANGED <<healthVars, configVars>>

\* SafeUserPDF.log_prob_gradient(state), up to the stub call.
LogProbGradientCall ==
    /\ pdfPc = "idle"
    /\ request' = [op |-> "LogProbGradient", state_bytes |-> _encode_array(state),
                   job_id |-> "job"]
    /\ pdfPc' = "waiting"
    /\ UNCHANGED <<state, response, pdfResult>>
    /\ UNCHANGED <<healthVars, configVars>>

\* The result of log_prob_gradient once the stub call has ended with `out`.
log_prob_gradient_result(out) ==
    IF out.tag = "raise" THEN out
    ELSE LET decoded == _decode_array(out.gradient_bytes)
         IN  IF decoded.tag = "raise" THEN decoded
             ELSE [tag |-> "return", value |-> decoded.value]

\* SafeUserPDF.log_prob_gradient(state), from the end of the stub call.
LogProbGradientReturn ==
    /\ pdfPc = "waiting"
    /\ request.op = "LogProbGradient"
    /\ \E out \in StubOutcomes(request) :
          /\ response' = out
          /\ pdfResult' = log_prob_gradient_result(out)
    /\ pdfPc' = "done"
    /\ UNCHANGED <<state, request>>
    /\ UNCHANGED <<healthVars, configVars>>

PdfNext ==
    \/ LogProbCall
    \/ LogProbReturn
    \/ LogProbGradientCall
    \/ LogProbGradientReturn

(***************************************************************************)
(*                          SPECIFICATIONS                                 *)
(***************************************************************************)

ConfigIdle ==
    /\ raw = [top |-> {}]
    /\ cfgPc = "raw"
    /\ loadResult = [tag |-> "none"]
    /\ instances = <<>>

PdfIdle ==
    /\ state = [dtype |-> "float64", elems |-> <<>>]
    /\ pdfPc = "idle"
    /\ request = [op |-> "none"]
    /\ response = [tag |-> "none"]
    /\ pdfResult = [tag |-> "none"]

\* The controller entrypoint.
Init == HealthInit /\ ConfigIdle /\ PdfIdle
Spec == Init /\ [][Next]_vars

\* The controller entrypoint with the health workers scheduled fairly: a
\* worker of the thread pool that holds a request runs its handler.  Nothing
\* is assumed of the child process, which may block forever.
LiveSpec == Spec /\ \A id \in 1..MaxQueries : WF_vars(HealthAnswer(id))

\* The scheduler configuration resolver.
ConfigSpecInit == ConfigInit /\ HealthInit /\ PdfIdle
ConfigSpec == ConfigSpecInit /\ [][ConfigNext]_vars

\* The remote density evaluation client.
PdfSpecInit == PdfInit /\ HealthInit /\ ConfigIdle
PdfSpec == PdfSpecInit /\ [][PdfNext]_vars


(***************************************************************************)
(*                              CLAIMS                                     *)
(***************************************************************************)

Terminal == {"SUCCESS", "FAILED"}

\* C1: in every state the health query gives SERVING when the controller
\* process has no exit code (not started, or running), SUCCESS when its exit
\* code is 0 and FAILED when it is any other value, 137 and negative signal
\* codes included; every answer given is one of these three, by that rule.
C1_HealthLabelByExitCode ==
    LET Expected(code) == IF code = None THEN "SERVING"
                          ELSE IF code[1] = 0 THEN "SUCCESS" ELSE "FAILED"
    IN  /\ childPc # "exited" => controller_state = "SERVING"
        /\ childPc = "exited" => controller_state = Expected(osExit)
        /\ \A i \in DOMAIN replies :
              /\ replies[i].label \in {"SERVING", "SUCCESS", "FAILED"}
              /\ replies[i].label = Expected(replies[i].exitcode)

\* C1 witness: a query answered SERVING while the child ran, and a later one
\* answered FAILED on a negative (signal) exit code.
C1_Witness ==
    \E i, j \in DOMAIN replies :
        /\ i < j
        /\ replies[i].exitcode = None /\ replies[i].label = "SERVING"
        /\ replies[j].exitcode # None /\ replies[j].exitcode[1] < 0
        /\ replies[j].label = "FAILED"

\* C2: the answers only move from SERVING to SUCCESS or to FAILED: after an
\* answer SUCCESS or FAILED every later answer is that same label; and the
\* controller process is started once, never again.
C2_TerminalAndStartedOnce ==
    /\ \A i, j \in DOMAIN replies :
          (i < j /\ replies[i].label \in Terminal) => replies[j].label = replies[i].label
    /\ startCount <= 1
    /\ (procStarted \/ replies # <<>>) => startCount = 1

\* C2 witness: SERVING, then SUCCESS twice.
C2_Witness ==
    /\ Len(replies) = 3
    /\ replies[1].label = "SERVING"
    /\ replies[2].label = "SUCCESS"
    /\ replies[3].label = "SUCCESS"
    /\ startCount = 1

\* C3: every health request is answered, whatever the controller process
\* does (it may block in run_job forever): an answer given while the child
\* is in run_job is SERVING, one given after it died with a non-zero exit
\* code is FAILED.
C3_AnsweredWhileBlockedOrFailed ==
    /\ [](\A i \in DOMAIN replies :
             /\ replies[i].child = "run_job" => replies[i].label = "SERVING"
             /\ (replies[i].child = "exited" /\ replies[i].exitcode # Some(0))
                    => replies[i].label = "FAILED")
    /\ \A id \in 1..MaxQueries :
          (id \in pending) ~> (\E i \in DOMAIN replies : replies[i].id = id)

\* C3 witness: a request answered SERVING while the child sat in run_job, and
\* one answered FAILED after run_job raised and the child died.
C3_Witness ==
    /\ raised = "RuntimeError"
    /\ \E i, j \in DOMAIN replies :
          /\ replies[i].child = "run_job" /\ replies[i].label = "SERVING"
          /\ replies[j].child = "exited" /\ replies[j].label = "FAILED"

\* C4 as stated: whenever anything raised escapes run_job, it is logged
\* before the child ends, the child ends with a non-zero exit code, and every
\* query answered after that is FAILED.
C4_AnyExceptionLoggedAndFailed ==
    raised # "none" =>
        /\ childPc = "exited" => (logged /\ osExit # Some(0))
        /\ \A i \in DOMAIN replies :
              replies[i].child = "exited" => replies[i].label = "FAILED"

\* C4 amended: whenever an instance of Exception escapes run_job, the child
\* never ends with exit code 0 and every query answered after it ended is
\* FAILED; and when the child ended by itself (not killed by a signal, whose
\* exit code is negative) the exception was logged before it ended and the
\* exit code is 1.
C4_ExceptionLoggedAndFailed ==
    CaughtByExceptException(raised) =>
        /\ childPc = "exited" =>
              /\ osExit # Some(0)
              /\ osExit[1] > 0 => (logged /\ osExit = Some(1))
        /\ \A i \in DOMAIN replies :
              replies[i].child = "exited" => replies[i].label = "FAILED"

\* C4 witness: run_job raised an Exception, it was logged, the child ended
\* with exit code 1 and a query after that was answered FAILED.
C4_Witness ==
    /\ raised = "RuntimeError"
    /\ childPc = "exited"
    /\ logged
    /\ osExit = Some(1)
    /\ \E i \in DOMAIN replies : replies[i].child = "exited" /\ replies[i].label = "FAILED"

\* The (node type, driver id) pairs of the registry, as config.py writes them.
RegisteredPairs == {<<"LIBCLOUD_VM", "gce">>, <<"LIBCLOUD_VM", "dummy">>}
RegisteredTypes == {"LIBCLOUD_VM"}

\* C5: a document that passes the base shape and whose (node_type,
\* node_driver) is not registered fails to load: with the unknown node type
\* error when the node type has no entry, with the unknown driver error when
\* the node type has one but the driver is not in it; no SchedulerConfig comes
\* back and no driver factory is called.
C5_UnregisteredPairFails ==
    (cfgPc = "loaded" /\ BaseShapeValid(raw)
        /\ <<raw.node_type, raw.node_driver>> \notin RegisteredPairs) =>
        /\ raw.node_type \notin RegisteredTypes
              => loadResult = ValidationError(UnknownNodeTypeText)
        /\ raw.node_type \in RegisteredTypes
              => loadResult = ValidationError(UnknownDriverText)
        /\ instances = <<>>

\* C5 witness: driver "aws" asked of LIBCLOUD_VM, refused as unknown driver.
C5_Witness ==
    /\ cfgPc = "loaded"
    /\ BaseShapeValid(raw)
    /\ raw.node_type = "LIBCLOUD_VM" /\ raw.node_driver = "aws"
    /\ loadResult = ValidationError(UnknownDriverText)

\* C6 as stated: a document with a registered pair and no section for its
\* driver, the driver_specs block lacking the key or being absent, fails to
\* load with the missing driver spec ValidationError.
C6_MissingSectionIsValidationError ==
    (cfgPc = "loaded" /\ BaseShapeValid(raw)
        /\ <<raw.node_type, raw.node_driver>> \in RegisteredPairs
        /\ ("driver_specs" \notin raw.top \/ raw.node_driver \notin DOMAIN raw.driver_specs))
    => loadResult = ValidationError(MissingSpecText)

\* The fields each driver's section must hold.
RequiredOf(driver) ==
    IF driver = "dummy" THEN {"creds"} ELSE {"user_id", "key", "project", "datacenter"}

\* C7: a document with a registered driver whose section is there but omits
\* a required field (creds for dummy; user_id, key, project or datacenter for
\* gce) fails to load with a ValidationError naming the missing fields; no
\* SchedulerConfig is built.
C7_OmittedRequiredFieldFails ==
    (cfgPc = "loaded" /\ BaseShapeValid(raw)
        /\ <<raw.node_type, raw.node_driver>> \in RegisteredPairs
        /\ "driver_specs" \in raw.top
        /\ raw.node_driver \in DOMAIN raw.driver_specs
        /\ ~(RequiredOf(raw.node_driver) \subseteq raw.driver_specs[raw.node_driver]))
    => /\ loadResult.tag = "raise"
       /\ loadResult.type = "ValidationError"
       /\ \A f \in RequiredOf(raw.node_driver) \ raw.driver_specs[raw.node_driver] :
             <<f, "Missing data for required field.">> \in loadResult.messages
       /\ instances = <<>>

\* C7 witness: a gce section without datacenter, refused.
C7_Witness ==
    /\ cfgPc = "loaded"
    /\ BaseShapeValid(raw)
    /\ raw.node_type = "LIBCLOUD_VM" /\ raw.node_driver = "gce"
    /\ "driver_specs" \in raw.top
    /\ "gce" \in DOMAIN raw.driver_specs
    /\ raw.driver_specs["gce"] = {"user_id", "key", "project"}
    /\ loadResult.tag = "raise"
    /\ loadResult.type = "ValidationError"

\* The factory config.py registers for each driver id.
FactoryOf(driver) ==
    IF driver = "gce" THEN "GCENodeDriver" ELSE "DeployableDummyNodeDriver"

\* C10: a SchedulerConfig that comes back holds the factory registered for
\* the requested pair, no positional arguments, and as keyword arguments the
\* requested driver's own section, which holds exactly the fields of that
\* driver's schema; every driver built from it is built by that factory with
\* those arguments.
C10_FactoryMatchesArguments ==
    (cfgPc = "loaded" /\ loadResult.tag = "config") =>
        /\ <<raw.node_type, raw.node_driver>> \in RegisteredPairs
        /\ loadResult.driver = FactoryOf(raw.node_driver)
        /\ loadResult.driver_args = <<>>
        /\ loadResult.driver_kwargs = raw.driver_specs[raw.node_driver]
        /\ loadResult.driver_kwargs = RequiredOf(raw.node_driver)
        /\ \A i \in DOMAIN instances :
              /\ instances[i].factory = FactoryOf(raw.node_driver)
              /\ instances[i].args = <<>>
              /\ instances[i].kwargs = RequiredOf(raw.node_driver)

\* C10 witness: a gce document resolved and a driver built from it, while
\* the document also holds a dummy section.
C10_Witness ==
    /\ cfgPc = "loaded"
    /\ loadResult.tag = "config"
    /\ raw.node_driver = "gce"
    /\ DOMAIN raw.driver_specs = {"gce", "dummy"}
    /\ Len(instances) >= 1

\* Whether the call ended on a failure: the stub raised, or the gradient
\* buffer is not a whole number of 8-byte elements.
CallFailed ==
    \/ response.tag = "raise"
    \/ /\ response.tag = "ok"
       /\ request.op = "LogProbGradient"
       /\ Len(response.gradient_bytes) % 8 # 0

\* C8 as stated: every failure of log_prob or log_prob_gradient, a transport
\* failure, a remote-side error or a truncated gradient buffer, reaches the
\* caller as a RemoteEvaluationError; a truncated buffer is never returned
\* as an array.
C8_FailuresAreRemoteEvaluationError ==
    (pdfPc = "done" /\ CallFailed) =>
        /\ pdfResult.tag = "raise"
        /\ pdfResult.type = "RemoteEvaluationError"

\* The float64 element with the value of element b of the dtype.
AsFloat64(dtype, b) ==
    CASE dtype = "float64" -> b
      [] dtype = "float32" /\ b = <<0,0,0,0>> -> <<0,0,0,0,0,0,0,0>>
      [] dtype = "float32" /\ b = <<0,0,128,63>> -> <<0,0,0,0,0,0,240,63>>
      [] dtype = "int64" /\ b = <<0,0,0,0,0,0,0,0>> -> <<0,0,0,0,0,0,0,0>>
      [] dtype = "int64" /\ b = <<1,0,0,0,0,0,0,0>> -> <<0,0,0,0,0,0,240,63>>

\* The call was log_prob_gradient and the stub gave back the very buffer of
\* the request: the result is _decode_array(_encode_array(state)).
Echoed ==
    /\ pdfPc = "done"
    /\ request.op = "LogProbGradient"
    /\ response.tag = "ok"
    /\ response.gradient_bytes = request.state_bytes

\* C9 as stated: for every numeric array x, of any dtype, decoding the
\* encoding of x gives an array of the same length with the same number at
\* every index.
C9_RoundTripAnyNumeric ==
    Echoed =>
        /\ pdfResult.tag = "return"
        /\ Len(pdfResult.value.elems) = Len(state.elems)
        /\ \A i \in DOMAIN state.elems :
              pdfResult.value.elems[i] = AsFloat64(state.dtype, state.elems[i])

\* C9 amended: for every float64 array x of length 0, 1 or N, decoding the
\* encoding of x gives back x: the same length, the same element at every
\* index.
C9_RoundTripFloat64 ==
    (Echoed /\ state.dtype = "float64") =>
        /\ pdfResult.tag = "return"
        /\ pdfResult.value.dtype = "float64"
        /\ Len(pdfResult.value.elems) = Len(state.elems)
        /\ \A i \in DOMAIN state.elems : pdfResult.value.elems[i] = state.elems[i]

\* C9 witness: the float64 array [1.0, -2.5] came back from the round trip.
C9_Witness ==
    /\ Echoed
    /\ state = [dtype |-> "float64",
                elems |-> << <<0,0,0,0,0,0,240,63>>, <<0,0,0,0,0,0,4,192>> >>]
    /\ pdfResult.tag = "return"
    /\ pdfResult.value = state

=============================================================================
